---- MODULE Spec2Model ----
(***************************************************************************)
(* A model of the card identity resolution pipeline of mtgproxyforge:      *)
(*   card_parser.py       CardParser (line grammar, consolidation)         *)
(*   scryfall_service.py  ScryfallService (rate limit, retry client,       *)
(*                        resolver, edition aggregator)                    *)
(*   app.py               the route handlers process_list and              *)
(*                        get_card_by_lang_and_set                         *)
(* Each component has a specification of its own (SpecRequest, SpecRate,   *)
(* SpecResolve, SpecEditions, SpecParser, SpecProcess);                    *)
(* the variables of the other components stay at their initial values.     *)
(***************************************************************************)
EXTENDS Integers, Sequences, FiniteSets, TLC

VARIABLES
    \* ScryfallService._make_request
    mr_pc, calls, attempt, sent, mr_result, sleeps, outcomes, sent_at,
    \* ScryfallService._rate_limit, one activation per thread
    now, last_request_time, rl_pc, current_time, time_since_last, wake_at, passes,
    \* ScryfallService.get_card_by_name
    gn_pc, card_data, pt_card, en_card, issued, gn_result,
    \* ScryfallService.get_card_by_name_and_set
    ns_pc, ns_lang, ns_locals, ns_issued, ns_result,
    \* ScryfallService.get_card_editions and app.get_card_by_lang_and_set
    ed_pc, budget, limit, all_cards, editions, flt, responses,
    \* CardParser
    cp_pc, cp_in, cp_parsed, cp_out, cp_round, issues,
    \* app.process_list
    pl_pc, parsed_cards, card_index, processed_cards, pl_log, pl_response

reqVars  == <<mr_pc, calls, attempt, sent, mr_result, sleeps, outcomes, sent_at>>
rateVars == <<now, last_request_time, rl_pc, current_time, time_since_last, wake_at,
              passes>>
gnVars   == <<gn_pc, card_data, pt_card, en_card, issued, gn_result>>
nsVars   == <<ns_pc, ns_lang, ns_locals, ns_issued, ns_result>>
resVars  == <<gnVars, nsVars>>
edVars   == <<ed_pc, budget, limit, all_cards, editions, flt, responses>>
cpVars   == <<cp_pc, cp_in, cp_parsed, cp_out, cp_round, issues>>
plVars   == <<pl_pc, parsed_cards, card_index, processed_cards, pl_log, pl_response>>
vars     == <<reqVars, rateVars, resVars, edVars, cpVars, plVars>>

\* Python's None.
None == "None"

\* None where a string (a sequence of characters) can stand.
NoStr == <<None>>

(***************************************************************************)
(* Strings are sequences of characters, so that str.upper, str.lower,      *)
(* str.strip and the regular expressions act on them as in Python.         *)
(***************************************************************************)
Letters == {"a", "b", "c", "e", "l", "m", "A", "B", "C", "E", "L", "M"}

\* str.upper and str.lower on one character.
UpperChar(c) ==
    CASE c = "a" -> "A" [] c = "b" -> "B" [] c = "c" -> "C"
      [] c = "e" -> "E" [] c = "l" -> "L" [] c = "m" -> "M"
      [] OTHER -> c
LowerChar(c) ==
    CASE c = "A" -> "a" [] c = "B" -> "b" [] c = "C" -> "c"
      [] c = "E" -> "e" [] c = "L" -> "l" [] c = "M" -> "m"
      [] OTHER -> c

Upper(str) == [i \in 1..Len(str) |-> UpperChar(str[i])]
Lower(str) == [i \in 1..Len(str) |-> LowerChar(str[i])]

(***************************************************************************)
(* The values the variables of a component hold while another component's  *)
(* specification runs.                                                     *)
(***************************************************************************)
IdleReq  == /\ mr_pc = "idle" /\ calls = 0 /\ attempt = 0 /\ sent = 0
            /\ mr_result = [kind |-> "pending"] /\ sleeps = <<>> /\ outcomes = <<>>
            /\ sent_at = <<>>
IdleRate == /\ now = 0 /\ last_request_time = 0 /\ rl_pc = <<>>
            /\ current_time = <<>> /\ time_since_last = <<>> /\ wake_at = <<>>
            /\ passes = <<>>
IdleRes  == /\ gn_pc = "idle" /\ card_data = [t |-> "None"] /\ pt_card = [t |-> "None"]
            /\ en_card = [t |-> "None"]
            /\ issued = <<>> /\ gn_result = [kind |-> "pending"]
            /\ ns_pc = "idle" /\ ns_lang = "None" /\ ns_issued = <<>>
            /\ ns_locals = [card_data |-> [t |-> "None"], en_card |-> [t |-> "None"],
                            pt_card |-> [t |-> "None"], fuzzy_card |-> [t |-> "None"]]
            /\ ns_result = [kind |-> "pending"]
IdleEd   == /\ ed_pc = "idle" /\ budget = 0 /\ limit = 0 /\ all_cards = <<>>
            /\ editions = <<>> /\ flt = [t |-> "None"] /\ responses = <<>>
IdleCp   == /\ cp_pc = "idle" /\ cp_in = <<>> /\ cp_parsed = <<>> /\ cp_out = <<>>
            /\ cp_round = <<>> /\ issues = <<>>
IdlePl   == /\ pl_pc = "idle" /\ parsed_cards = <<>> /\ processed_cards = <<>>
            /\ card_index = 0 /\ pl_log = <<>> /\ pl_response = [t |-> "None"]

(***************************************************************************)
(* ScryfallService._make_request: the retry client.                        *)
(***************************************************************************)

\* max_retries=3, the default every caller uses.
max_retries == 3

\* Calls made one after the other in one run of the model.
MaxCalls == 2

\* requests' exception classes and their base classes (requests.exceptions).
ExcBases ==
    [ Timeout           |-> {"RequestException"},
      ConnectionError   |-> {"RequestException"},
      ConnectTimeout    |-> {"ConnectionError", "Timeout"},
      JSONDecodeError   |-> {"InvalidJSONError"},
      InvalidJSONError  |-> {"RequestException"},
      TooManyRedirects  |-> {"RequestException"},
      RequestException  |-> {} ]

RECURSIVE IsInstance(_, _)
IsInstance(exc, cls) ==
    \/ exc = cls
    \/ \E b \in ExcBases[exc] : IsInstance(b, cls)

\* What one attempt can meet: a response with a status code (a 200's body
\* parses or does not), or an exception raised by session.get.
StatusCodes == {200, 404, 429, 500}
Upstream ==
    [kind : {"response"}, status : StatusCodes \ {200}, json_ok : {TRUE}]
    \cup [kind : {"response"}, status : {200}, json_ok : BOOLEAN]
    \cup [kind : {"raise"}, exc : {"Timeout", "ConnectionError", "TooManyRedirects"}]

\* A back-off of one second whatever the attempt.
OneSecond(n) == 1

\* 2 ** attempt
RECURSIVE Pow2(_)
Pow2(n) == IF n = 0 THEN 1 ELSE 2 * Pow2(n - 1)

\* A loop that runs once more than max_retries.
AttemptRangeOneMore == max_retries + 1

\* The range of the for loop.
AttemptRange == max_retries

\* The except clauses of the try block, in order; "propagate" when none matches.
ExceptNoRequestException(exc, att) ==
    IF IsInstance(exc, "Timeout") \/ IsInstance(exc, "ConnectionError")
    THEN IF att < max_retries - 1
         THEN [do |-> "continue", sleep |-> <<Pow2(att)>>]
         ELSE [do |-> "return", sleep |-> <<>>]
    ELSE [do |-> "propagate", sleep |-> <<>>]

ExceptClause(exc, att) ==
    IF IsInstance(exc, "Timeout") \/ IsInstance(exc, "ConnectionError")
    THEN IF att < max_retries - 1
         THEN [do |-> "continue", sleep |-> <<Pow2(att)>>]
         ELSE [do |-> "return", sleep |-> <<>>]
    ELSE IF IsInstance(exc, "RequestException")
    THEN [do |-> "return", sleep |-> <<>>]
    ELSE [do |-> "propagate", sleep |-> <<>>]

\* A try block that treats every status other than 200 and 404 as it treats
\* 429: sleep one second and go round again.
TryBodyRetryOthers(u, att) ==
    IF u.kind = "raise"
    THEN LET h == ExceptClause(u.exc, att)
         IN  [do |-> h.do, value |-> None, exc |-> u.exc, sleep |-> h.sleep]
    ELSE IF u.status = 200
    THEN IF u.json_ok
         THEN [do |-> "return", value |-> "body", exc |-> None, sleep |-> <<>>]
         ELSE LET h == ExceptClause("JSONDecodeError", att)
              IN  [do |-> h.do, value |-> None, exc |-> "JSONDecodeError",
                   sleep |-> h.sleep]
    ELSE IF u.status = 404
    THEN [do |-> "return", value |-> None, exc |-> None, sleep |-> <<>>]
    ELSE [do |-> "continue", value |-> None, exc |-> None, sleep |-> <<1>>]

\* A try block that returns the parsed body of the response whatever its
\* status, a 404 apart.
TryBodyAnyBody(u, att) ==
    IF u.kind = "raise"
    THEN LET h == ExceptClause(u.exc, att)
         IN  [do |-> h.do, value |-> None, exc |-> u.exc, sleep |-> h.sleep]
    ELSE IF u.status = 200 /\ ~u.json_ok
    THEN LET h == ExceptClause("JSONDecodeError", att)
         IN  [do |-> h.do, value |-> None, exc |-> "JSONDecodeError",
              sleep |-> h.sleep]
    ELSE IF u.status = 404
    THEN [do |-> "return", value |-> None, exc |-> None, sleep |-> <<>>]
    ELSE IF u.status = 429
    THEN [do |-> "continue", value |-> None, exc |-> None, sleep |-> <<1>>]
    ELSE [do |-> "return", value |-> "body", exc |-> None, sleep |-> <<>>]

\* The body of the try block for one upstream outcome u of attempt att:
\* what the loop does next, the value returned and the sleep taken.
TryBody(u, att) ==
    IF u.kind = "raise"
    THEN LET h == ExceptClause(u.exc, att)
         IN  [do |-> h.do, value |-> None, exc |-> u.exc, sleep |-> h.sleep]
    ELSE IF u.status = 200
    THEN IF u.json_ok
         THEN [do |-> "return", value |-> "body", exc |-> None, sleep |-> <<>>]
         ELSE \* response.json() raises requests.exceptions.JSONDecodeError
              LET h == ExceptClause("JSONDecodeError", att)
              IN  [do |-> h.do, value |-> None, exc |-> "JSONDecodeError",
                   sleep |-> h.sleep]
    ELSE IF u.status = 404
    THEN [do |-> "return", value |-> None, exc |-> None, sleep |-> <<>>]
    ELSE IF u.status = 429
    THEN [do |-> "continue", value |-> None, exc |-> None, sleep |-> <<1>>]
    ELSE [do |-> "return", value |-> None, exc |-> None, sleep |-> <<>>]

\* Line 33: the loop starts.
LoopStart ==
    /\ mr_pc = "idle"
    /\ calls < MaxCalls
    /\ calls' = calls + 1
    /\ mr_pc' = IF AttemptRange > 0 THEN "attempt" ELSE "done"
    /\ attempt' = 0
    /\ sent' = 0
    /\ sleeps' = <<>>
    /\ mr_result' = IF AttemptRange > 0 THEN [kind |-> "pending"]
                    ELSE [kind |-> "return", value |-> None]
    /\ outcomes' = <<>>

\* _make_request is entered: _rate_limit() has run and the loop starts.
MrCall ==
    /\ LoopStart
    /\ UNCHANGED sent_at
    /\ UNCHANGED <<rateVars, resVars, edVars, cpVars, plVars>>

\* Lines 34-62, one iteration of the loop: session.get, then the branch on
\* the status code or the except clause, the back-off sleep included.
LoopStep(u) ==
    /\ mr_pc = "attempt"
    /\ attempt < AttemptRange
    /\ LET r == TryBody(u, attempt)
       IN  /\ sent' = sent + 1
           /\ calls' = calls
           /\ outcomes' = Append(outcomes, u)
           /\ sleeps' = sleeps \o [i \in 1..Len(r.sleep) |->
                                     [after |-> attempt, secs |-> r.sleep[i]]]
           /\ attempt' = IF r.do = "continue" THEN attempt + 1 ELSE attempt
           /\ mr_pc' = IF r.do = "continue" /\ attempt + 1 < AttemptRange
                       THEN "attempt" ELSE "done"
           /\ mr_result' =
                CASE r.do = "return"    -> [kind |-> "return", value |-> r.value]
                  [] r.do = "propagate" -> [kind |-> "raise", exc |-> r.exc]
                  [] r.do = "continue"  ->
                        IF attempt + 1 < AttemptRange
                        THEN [kind |-> "pending"]
                        ELSE [kind |-> "return", value |-> None]  \* line 62

\* One iteration of the loop of a call.
MrAttempt(u) ==
    /\ LoopStep(u)
    /\ UNCHANGED sent_at
    /\ UNCHANGED <<rateVars, resVars, edVars, cpVars, plVars>>

\* The caller takes the result; the service is ready for the next call.
MrReturn ==
    /\ mr_pc = "done"
    /\ mr_pc' = "idle"
    /\ UNCHANGED <<calls, attempt, sent, mr_result, sleeps, outcomes, sent_at>>
    /\ UNCHANGED <<rateVars, resVars, edVars, cpVars, plVars>>

InitRequest == IdleReq /\ IdleRate /\ IdleRes /\ IdleEd /\ IdleCp /\ IdlePl

NextRequest ==
    \/ MrCall
    \/ \E u \in Upstream : MrAttempt(u)
    \/ MrReturn

SpecRequest == InitRequest /\ [][NextRequest]_vars

\* A call in progress runs on: the thread executes the loop, and every
\* request ends within its 15 s timeout.
SpecRequestFair == SpecRequest /\ WF_vars(\E u \in Upstream : MrAttempt(u))

\* The outcomes after which the loop goes round again.
Retryable(u) ==
    \/ u.kind = "response" /\ u.status = 429
    \/ u.kind = "raise" /\ u.exc \in {"Timeout", "ConnectionError"}

\* C6: _make_request never propagates an exception: whatever the attempts
\* meet, no call ends raising, and a finished call has returned the parsed
\* body or None.
C6_NeverRaises ==
    /\ mr_result.kind # "raise"
    /\ mr_pc = "done" =>
          mr_result.kind = "return" /\ mr_result.value \in {"body", None}

\* A call that ended on a 200 response whose body did not parse, and one
\* that ended on a request error that is neither timeout nor connection error.
C6_Witness ==
    /\ mr_pc = "done"
    /\ Len(outcomes) = 2
    /\ outcomes[1] = [kind |-> "raise", exc |-> "Timeout"]
    /\ outcomes[2] = [kind |-> "response", status |-> 200, json_ok |-> FALSE]
    /\ mr_result = [kind |-> "return", value |-> None]

\* C7: one call sends at most 3 HTTP requests and terminates; a 429 and a
\* network error each consume one attempt of the same counter, so after
\* three of them, in any mix, the call has returned None.
C7_AtMostThreeAttempts ==
    /\ [](sent <= 3)
    /\ []((\A i \in 1..Len(outcomes) : Retryable(outcomes[i])) =>
            /\ attempt = Len(outcomes) \/ mr_pc \in {"done", "idle"}
            /\ Len(outcomes) = 3 =>
                  mr_pc \in {"done", "idle"}
                  /\ mr_result = [kind |-> "return", value |-> None])
    /\ (mr_pc = "attempt" ~> mr_pc = "done")

\* Three failed attempts mixing 429 and a network error.
C7_Witness ==
    /\ mr_pc = "done"
    /\ sent = 3
    /\ outcomes = << [kind |-> "response", status |-> 429, json_ok |-> TRUE],
                     [kind |-> "raise", exc |-> "ConnectionError"],
                     [kind |-> "response", status |-> 429, json_ok |-> TRUE] >>
    /\ mr_result = [kind |-> "return", value |-> None]

\* A response that is not a 429.
FinalStatus(u) == u.kind = "response" /\ u.status # 429

\* C15: a 200 response ends the call returning the parsed body (None when
\* the body does not parse), a 404 or any status other than 200 and 429
\* ends it returning None; in both cases it is the last attempt of the call
\* and no sleep follows it.
C15_FinalStatusEndsCall ==
    \A i \in DOMAIN outcomes :
        FinalStatus(outcomes[i]) =>
            /\ i = Len(outcomes)
            /\ sent = i
            /\ mr_pc \in {"done", "idle"}
            /\ mr_result.kind = "return"
            /\ (outcomes[i].status = 200 /\ outcomes[i].json_ok) => mr_result.value = "body"
            /\ (outcomes[i].status = 200 /\ ~outcomes[i].json_ok) => mr_result.value = None
            /\ outcomes[i].status # 200 => mr_result.value = None
            /\ \A k \in DOMAIN sleeps : sleeps[k].after < i - 1

\* A 429 and then a 500: the call is over after two attempts and one sleep.
C15_Witness ==
    /\ mr_pc = "done"
    /\ outcomes = << [kind |-> "response", status |-> 429, json_ok |-> TRUE],
                     [kind |-> "response", status |-> 500, json_ok |-> TRUE] >>
    /\ sent = 2
    /\ sleeps = << [after |-> 0, secs |-> 1] >>
    /\ mr_result = [kind |-> "return", value |-> None]

\* A timeout or a connection error.
NetworkError(u) == u.kind = "raise" /\ u.exc \in {"Timeout", "ConnectionError"}

\* The sleeps taken after attempt k (counted from 0) of the call.
SleepsAfter(k) == SelectSeq(sleeps, LAMBDA sl : sl.after = k)

\* C16: when attempt k ends in a timeout or connection error, the client
\* sleeps 2^k seconds and retries if k < 2, and returns None without
\* sleeping if k = 2; a call whose attempts all fail this way makes exactly
\* 3 attempts with sleeps of 1 s and 2 s between them.
C16_ExponentialBackoff ==
    /\ \A i \in DOMAIN outcomes :
          NetworkError(outcomes[i]) =>
              LET k == i - 1
              IN  IF k < 2
                  THEN /\ SleepsAfter(k) = << [after |-> k, secs |-> 2^k] >>
                       /\ \/ Len(outcomes) > i
                          \/ mr_pc = "attempt" /\ attempt = k + 1
                  ELSE /\ SleepsAfter(k) = <<>>
                       /\ Len(outcomes) = i
                       /\ mr_pc \in {"done", "idle"}
                       /\ mr_result = [kind |-> "return", value |-> None]
    /\ (mr_pc \in {"done", "idle"} /\ outcomes # <<>>
          /\ \A i \in DOMAIN outcomes : NetworkError(outcomes[i])) =>
              /\ sent = 3
              /\ sleeps = << [after |-> 0, secs |-> 1], [after |-> 1, secs |-> 2] >>

\* Three attempts that all end in a timeout or connection error.
C16_Witness ==
    /\ mr_pc = "done"
    /\ outcomes = << [kind |-> "raise", exc |-> "Timeout"],
                     [kind |-> "raise", exc |-> "ConnectionError"],
                     [kind |-> "raise", exc |-> "Timeout"] >>
    /\ sent = 3
    /\ sleeps = << [after |-> 0, secs |-> 1], [after |-> 1, secs |-> 2] >>
    /\ mr_result = [kind |-> "return", value |-> None]

\* C24: within one call every back-off sleep is followed by another HTTP
\* attempt of that call: when the call has ended, each sleep was taken
\* after an attempt that is not the last one sent.
C24_NoSleepAfterLastAttempt ==
    mr_pc = "done" =>
        \A i \in DOMAIN sleeps : sleeps[i].after + 1 < sent

(***************************************************************************)
(* ScryfallService._rate_limit on the one shared instance (app.py line 20) *)
(* called from the threads that serve requests.  Time is counted in ticks  *)
(* of 50 ms.                                                               *)
(***************************************************************************)

\* REQUEST_DELAY = 0.1 s, in ticks of 50 ms.
REQUEST_DELAY == 2

\* The threads of the server that call the service.
Threads == {"t1", "t2"}

\* The clock stops here, and no more than MaxPasses calls are started.
MaxTime == 6
MaxPasses == 3

\* Line 23: current_time = time.time()
RlReadClock(t) ==
    /\ rl_pc[t] = "idle"
    /\ Len(passes) + Cardinality({x \in Threads : rl_pc[x] # "idle"}) < MaxPasses
    /\ current_time' = [current_time EXCEPT ![t] = now]
    /\ rl_pc' = [rl_pc EXCEPT ![t] = "line24"]
    /\ UNCHANGED <<now, last_request_time, time_since_last, wake_at, passes>>
    /\ UNCHANGED <<reqVars, resVars, edVars, cpVars, plVars>>

\* Line 24: time_since_last = current_time - self.last_request_time
RlReadLast(t) ==
    /\ rl_pc[t] = "line24"
    /\ time_since_last' = [time_since_last EXCEPT ![t] = current_time[t] - last_request_time]
    /\ rl_pc' = [rl_pc EXCEPT ![t] = "line25"]
    /\ UNCHANGED <<now, last_request_time, current_time, wake_at, passes>>
    /\ UNCHANGED <<reqVars, resVars, edVars, cpVars, plVars>>

\* Lines 25-26: if time_since_last < REQUEST_DELAY: time.sleep(the remainder)
RlTest(t) ==
    /\ rl_pc[t] = "line25"
    /\ IF time_since_last[t] < REQUEST_DELAY
       THEN /\ wake_at' = [wake_at EXCEPT ![t] = now + (REQUEST_DELAY - time_since_last[t])]
            /\ rl_pc' = [rl_pc EXCEPT ![t] = "sleep"]
       ELSE /\ wake_at' = wake_at
            /\ rl_pc' = [rl_pc EXCEPT ![t] = "line27"]
    /\ UNCHANGED <<now, last_request_time, current_time, time_since_last, passes>>
    /\ UNCHANGED <<reqVars, resVars, edVars, cpVars, plVars>>

\* time.sleep returns, no earlier than asked.
RlWake(t) ==
    /\ rl_pc[t] = "sleep"
    /\ now >= wake_at[t]
    /\ rl_pc' = [rl_pc EXCEPT ![t] = "line27"]
    /\ UNCHANGED <<now, last_request_time, current_time, time_since_last, wake_at, passes>>
    /\ UNCHANGED <<reqVars, resVars, edVars, cpVars, plVars>>

\* Line 27: self.last_request_time = time.time(); the caller passes the gate
\* and goes on to send its request.
RlStamp(t) ==
    /\ rl_pc[t] = "line27"
    /\ last_request_time' = now
    /\ passes' = Append(passes, [thread |-> t, at |-> now])
    /\ rl_pc' = [rl_pc EXCEPT ![t] = "idle"]
    /\ UNCHANGED <<now, current_time, time_since_last, wake_at>>
    /\ UNCHANGED <<reqVars, resVars, edVars, cpVars, plVars>>

\* 50 ms pass.
Tick ==
    /\ now < MaxTime
    /\ now' = now + 1
    /\ UNCHANGED <<last_request_time, rl_pc, current_time, time_since_last, wake_at, passes>>
    /\ UNCHANGED <<reqVars, resVars, edVars, cpVars, plVars>>

\* __init__ sets last_request_time = 0 and the clock reads the time since
\* the epoch, so the first call finds the delay elapsed.
InitRate ==
    /\ now = REQUEST_DELAY
    /\ last_request_time = 0
    /\ rl_pc = [t \in Threads |-> "idle"]
    /\ current_time = [t \in Threads |-> 0]
    /\ time_since_last = [t \in Threads |-> 0]
    /\ wake_at = [t \in Threads |-> 0]
    /\ passes = <<>>
    /\ IdleReq /\ IdleRes /\ IdleEd /\ IdleCp /\ IdlePl

NextRate ==
    \/ \E t \in Threads : RlReadClock(t)
    \/ \E t \in Threads : RlReadLast(t)
    \/ \E t \in Threads : RlTest(t)
    \/ \E t \in Threads : RlWake(t)
    \/ \E t \in Threads : RlStamp(t)
    \/ Tick

SpecRate == InitRate /\ [][NextRate]_vars

\* C4: under every interleaving of the threads, no two callers pass the
\* gate less than 100 ms apart.
C4_MutuallyExclusiveGate ==
    \A i, j \in DOMAIN passes :
        i < j => passes[j].at - passes[i].at >= REQUEST_DELAY

(***************************************************************************)
(* One thread calling _make_request again and again, with the clock: the   *)
(* rate limit of line 31, the requests of line 35 and the sleeps of lines  *)
(* 44 and 53.  Time is counted in ticks of 50 ms.                          *)
(***************************************************************************)

\* One second, in ticks of 50 ms.
TicksPerSecond == 20

\* The time the caller spends between two calls, and the time a request
\* takes until its response or exception, in ticks.
Gaps == {0, 1, 3}
Durations == {1, 3}

\* Lines 23-27 run by one thread at time t: the time at which _rate_limit
\* returns, which is also the new last_request_time.
RateLimited(t, last) ==
    IF t - last < REQUEST_DELAY THEN t + (REQUEST_DELAY - (t - last)) ELSE t

\* The seconds slept, in ticks.
RECURSIVE SleepTicks(_)
SleepTicks(sl) ==
    IF sl = <<>> THEN 0
    ELSE sl[1] * TicksPerSecond + SleepTicks(SubSeq(sl, 2, Len(sl)))

\* Lines 31-33: _make_request is called gap ticks after the last return;
\* _rate_limit runs, then the loop starts.
SrCall(gap) ==
    /\ LoopStart
    /\ now' = RateLimited(now + gap, last_request_time)
    /\ last_request_time' = now'
    /\ UNCHANGED sent_at
    /\ UNCHANGED <<rl_pc, current_time, time_since_last, wake_at, passes>>
    /\ UNCHANGED <<resVars, edVars, cpVars, plVars>>

\* Lines 34-62: the request is sent now, its outcome u comes dur ticks
\* later, and the sleep of the branch taken follows.
SrAttempt(u, dur) ==
    /\ LoopStep(u)
    /\ sent_at' = Append(sent_at, now)
    /\ now' = now + dur + SleepTicks(TryBody(u, attempt).sleep)
    /\ UNCHANGED <<last_request_time, rl_pc, current_time, time_since_last, wake_at,
                   passes>>
    /\ UNCHANGED <<resVars, edVars, cpVars, plVars>>

\* The caller takes the result.
SrReturn ==
    /\ mr_pc = "done"
    /\ mr_pc' = "idle"
    /\ UNCHANGED <<calls, attempt, sent, mr_result, sleeps, outcomes, sent_at>>
    /\ UNCHANGED <<rateVars, resVars, edVars, cpVars, plVars>>

\* As in InitRate, the first call finds the delay elapsed.
InitSerial ==
    /\ IdleReq
    /\ now = REQUEST_DELAY /\ last_request_time = 0 /\ rl_pc = <<>>
    /\ current_time = <<>> /\ time_since_last = <<>> /\ wake_at = <<>>
    /\ passes = <<>>
    /\ IdleRes /\ IdleEd /\ IdleCp /\ IdlePl

NextSerial ==
    \/ \E gap \in Gaps : SrCall(gap)
    \/ \E u \in Upstream, dur \in Durations : SrAttempt(u, dur)
    \/ SrReturn

SpecSerial == InitSerial /\ [][NextSerial]_vars

\* C13: with one thread, any two successive HTTP requests start at least
\* 100 ms apart, retries of an earlier call included.
C13_RequestsSpaced ==
    \A i \in 1..(Len(sent_at) - 1) : sent_at[i + 1] - sent_at[i] >= REQUEST_DELAY

(***************************************************************************)
(* ScryfallService.get_card_by_name: the resolver's fallback chain.  Each  *)
(* lookup is one _make_request call, which returns the parsed JSON body or *)
(* None.                                                                   *)
(***************************************************************************)

\* What _make_request can return: None, a falsy body ({} or []), a truthy
\* body that is no dict (a list), or a card object with its 'id' and 'lang'
\* (None when the key is missing).
JNone == [t |-> "None"]
JEmpty == [t |-> "empty"]
JList == [t |-> "list"]
CardIds == {None, "id1", "id2"}
CardLangs == {None, "pt", "en"}
JCards == [t : {"dict"}, id : CardIds, lang : CardLangs]
JValues == {JNone, JEmpty, JList} \cup JCards

\* Python truth of a returned value.
Truthy(v) == v.t \in {"list", "dict"}

\* pt_card and pt_card.get('lang') == 'pt', written without the language test.
PreferredHitAnyLang(pt) ==
    IF ~Truthy(pt) THEN "false"
    ELSE "true"

\* Line 93: pt_card and pt_card.get('lang') == 'pt'; a truthy value without
\* .get raises AttributeError.
PreferredHit(pt) ==
    IF ~Truthy(pt) THEN "false"
    ELSE IF pt.t # "dict" THEN "raise"
    ELSE IF pt.lang = "pt" THEN "true" ELSE "false"

GnReturn(v, src) == [kind |-> "return", value |-> v, from |-> src]

\* get_card_by_name is called.
GnCall ==
    /\ gn_pc = "idle"
    /\ issued = <<>>
    /\ gn_pc' = "fuzzy"
    /\ UNCHANGED <<card_data, pt_card, en_card, issued, gn_result>>
    /\ UNCHANGED <<nsVars, reqVars, rateVars, edVars, cpVars, plVars>>

\* Lines 71-84: the fuzzy lookup and the tests on its result.
GnFuzzy(r) ==
    /\ gn_pc = "fuzzy"
    /\ issued' = Append(issued, "fuzzy")
    /\ card_data' = r
    /\ UNCHANGED <<pt_card, en_card>>
    /\ IF ~Truthy(r)
       THEN gn_pc' = "done" /\ gn_result' = GnReturn(JNone, "none")
       ELSE IF r.t # "dict"          \* card_data.get raises, line 109 catches
       THEN gn_pc' = "done" /\ gn_result' = GnReturn(JNone, "except")
       ELSE IF r.id = None
       THEN gn_pc' = "done" /\ gn_result' = GnReturn(r, "fuzzy")
       ELSE gn_pc' = "pt" /\ gn_result' = gn_result
    /\ UNCHANGED <<nsVars, reqVars, rateVars, edVars, cpVars, plVars>>

\* Lines 87-97: the by-id lookup with lang=pt.
GnPreferred(r) ==
    /\ gn_pc = "pt"
    /\ issued' = Append(issued, "id_pt")
    /\ pt_card' = r
    /\ UNCHANGED <<card_data, en_card>>
    /\ LET hit == PreferredHit(r)
       IN  IF hit = "true"
           THEN gn_pc' = "done" /\ gn_result' = GnReturn(r, "id_pt")
           ELSE IF hit = "raise"
           THEN gn_pc' = "done" /\ gn_result' = GnReturn(JNone, "except")
           ELSE gn_pc' = "en" /\ gn_result' = gn_result
    /\ UNCHANGED <<nsVars, reqVars, rateVars, edVars, cpVars, plVars>>

\* Absence in place of the fuzzy result when the default lookup fails.
DefaultOrNothing(en, fuzzy) ==
    IF Truthy(en) THEN GnReturn(en, "id") ELSE GnReturn(JNone, "none")

\* Lines 101-107: en_card when truthy, else the original fuzzy result.
DefaultOrFuzzy(en, fuzzy) ==
    IF Truthy(en) THEN GnReturn(en, "id") ELSE GnReturn(fuzzy, "fuzzy")

\* Lines 100-107: the by-id lookup without language, then the fuzzy result.
GnDefault(r) ==
    /\ gn_pc = "en"
    /\ issued' = Append(issued, "id")
    /\ en_card' = r
    /\ gn_pc' = "done"
    /\ gn_result' = DefaultOrFuzzy(r, card_data)
    /\ UNCHANGED <<card_data, pt_card>>
    /\ UNCHANGED <<nsVars, reqVars, rateVars, edVars, cpVars, plVars>>

InitResolve == IdleReq /\ IdleRate /\ IdleRes /\ IdleEd /\ IdleCp /\ IdlePl

NextResolve ==
    \/ GnCall
    \/ \E r \in JValues : GnFuzzy(r)
    \/ \E r \in JValues : GnPreferred(r)
    \/ \E r \in JValues : GnDefault(r)

SpecResolve == InitResolve /\ [][NextResolve]_vars

\* The by-id lookup for the preferred language was issued and returned a
\* record whose lang is not 'pt'.
PreferredReturnedOtherLang ==
    /\ Len(issued) >= 2
    /\ issued[2] = "id_pt"
    /\ pt_card.t = "dict"
    /\ pt_card.lang # "pt"

\* C5: when the preferred-language lookup returns a record whose lang is
\* not 'pt', that lookup's record is not what the step returns: the
\* default-language lookup is issued next, before anything is returned.
C5_FallbackAfterWrongLanguage ==
    PreferredReturnedOtherLang =>
        /\ gn_result.kind = "return" =>
              gn_result.from # "id_pt" /\ issued = <<"fuzzy", "id_pt", "id">>
        /\ gn_pc \in {"en", "done"}
        /\ gn_pc = "en" => gn_result.kind = "pending"

\* The preferred lookup answered in English, the default lookup was issued
\* and its record returned.
C5_Witness ==
    /\ PreferredReturnedOtherLang
    /\ pt_card.lang = "en"
    /\ gn_pc = "done"
    /\ gn_result.kind = "return"
    /\ gn_result.from = "id"

\* The lookups issued so far answered with a record or with nothing (None or
\* an empty body), the answers a lookup of the catalog has.
RecordsOrNothing == card_data.t # "list" /\ pt_card.t # "list"

\* C14: get_card_by_name returns None exactly when the fuzzy lookup yields
\* no candidate; otherwise the lang=pt record when its lang is 'pt', else
\* the record of the lookup without language when there is one, else the
\* fuzzy candidate; the lookups come in the order fuzzy, preferred, default
\* and none is issued once the result is decided.
C14_ResolutionOrder ==
    /\ \E n \in 0..3 : issued = SubSeq(<<"fuzzy", "id_pt", "id">>, 1, n)
    /\ (gn_pc = "done" /\ RecordsOrNothing) =>
          LET candidate == Truthy(card_data)
              preferred == Len(issued) >= 2 /\ Truthy(pt_card) /\ pt_card.lang = "pt"
              default == Len(issued) = 3 /\ Truthy(en_card)
          IN  /\ gn_result.kind = "return"
              /\ gn_result.value = JNone <=> ~candidate
              /\ ~candidate => issued = <<"fuzzy">>
              /\ candidate =>
                    IF preferred
                    THEN gn_result.value = pt_card /\ issued = <<"fuzzy", "id_pt">>
                    ELSE IF default
                    THEN gn_result.value = en_card
                    ELSE gn_result.value = card_data
              /\ (candidate /\ card_data.id # None /\ ~preferred) => Len(issued) = 3

\* The preferred lookup answers in English and the default lookup with
\* nothing: the fuzzy candidate is returned after all three lookups.
C14_Witness ==
    /\ gn_pc = "done"
    /\ issued = <<"fuzzy", "id_pt", "id">>
    /\ card_data.t = "dict" /\ card_data.id = "id1"
    /\ pt_card.t = "dict" /\ pt_card.lang = "en"
    /\ en_card = JNone
    /\ gn_result.value = card_data

(***************************************************************************)
(* ScryfallService.get_card_by_name_and_set: the lookup within one set,    *)
(* called with a set code that is not empty (app.py line 180) and with or  *)
(* without a language.                                                     *)
(***************************************************************************)

\* What a lookup can answer here: None, a falsy body, a truthy body that is
\* no dict, or a card with its 'lang' and 'collector_number' (None when the
\* key is missing).
NsCards == [t : {"dict"}, lang : {None, "pt", "en"}, collector_number : {None, "7"}]
NsValues == {JNone, JEmpty, JList} \cup NsCards

\* The lang argument: None or a language code.
NsLangs == {None, "pt"}

\* pt_card, returned whatever its language.
PortugueseHitAnyLang(pt) ==
    IF ~Truthy(pt) THEN "false" ELSE "true"

\* Line 144: pt_card and pt_card.get('lang') == 'pt'
PortugueseHit(pt) ==
    IF ~Truthy(pt) THEN "false"
    ELSE IF pt.t # "dict" THEN "raise"
    ELSE IF pt.lang = "pt" THEN "true" ELSE "false"

NsReturn(v, src) == [kind |-> "return", value |-> v, from |-> src]

\* get_card_by_name_and_set(card_name, set_code, lang) is called.
NsCall(lang) ==
    /\ ns_pc = "idle"
    /\ ns_issued = <<>>
    /\ ns_lang' = lang
    /\ ns_pc' = IF lang # None THEN "lang" ELSE "exact"
    /\ UNCHANGED <<ns_locals, ns_issued, ns_result>>
    /\ UNCHANGED <<gnVars, reqVars, rateVars, edVars, cpVars, plVars>>

\* Lines 117-122: the printing in the requested language, returned if truthy.
NsLang(r) ==
    /\ ns_pc = "lang"
    /\ ns_issued' = Append(ns_issued, "lang")
    /\ ns_locals' = [ns_locals EXCEPT !.card_data = r]
    /\ IF Truthy(r)
       THEN ns_pc' = "done" /\ ns_result' = NsReturn(r, "lang")
       ELSE ns_pc' = "exact" /\ ns_result' = ns_result
    /\ UNCHANGED ns_lang
    /\ UNCHANGED <<gnVars, reqVars, rateVars, edVars, cpVars, plVars>>

\* Lines 125-149: the exact lookup by name and set, and the tests on it.
NsExact(r) ==
    /\ ns_pc = "exact"
    /\ ns_issued' = Append(ns_issued, "exact")
    /\ ns_locals' = [ns_locals EXCEPT !.en_card = r]
    /\ IF ~Truthy(r)
       THEN ns_pc' = "fuzzy" /\ ns_result' = ns_result
       ELSE IF r.t # "dict"          \* en_card.get raises, line 162 catches
       THEN ns_pc' = "done" /\ ns_result' = NsReturn(JNone, "except")
       ELSE IF r.collector_number # None
       THEN ns_pc' = "pt" /\ ns_result' = ns_result
       ELSE ns_pc' = "done" /\ ns_result' = NsReturn(r, "exact")
    /\ UNCHANGED ns_lang
    /\ UNCHANGED <<gnVars, reqVars, rateVars, edVars, cpVars, plVars>>

\* Lines 140-149: the Portuguese printing with that collector number.
NsPortuguese(r) ==
    /\ ns_pc = "pt"
    /\ ns_issued' = Append(ns_issued, "pt")
    /\ ns_locals' = [ns_locals EXCEPT !.pt_card = r]
    /\ ns_pc' = "done"
    /\ LET hit == PortugueseHit(r)
       IN  ns_result' = IF hit = "true" THEN NsReturn(r, "pt")
                        ELSE IF hit = "raise" THEN NsReturn(JNone, "except")
                        ELSE NsReturn(ns_locals.en_card, "exact")
    /\ UNCHANGED ns_lang
    /\ UNCHANGED <<gnVars, reqVars, rateVars, edVars, cpVars, plVars>>

\* Lines 152-160: the fuzzy lookup within the set; its result is returned.
NsFuzzy(r) ==
    /\ ns_pc = "fuzzy"
    /\ ns_issued' = Append(ns_issued, "fuzzy")
    /\ ns_locals' = [ns_locals EXCEPT !.fuzzy_card = r]
    /\ ns_pc' = "done"
    /\ ns_result' = NsReturn(r, "fuzzy")
    /\ UNCHANGED ns_lang
    /\ UNCHANGED <<gnVars, reqVars, rateVars, edVars, cpVars, plVars>>

InitNameSet == IdleReq /\ IdleRate /\ IdleRes /\ IdleEd /\ IdleCp /\ IdlePl

NextNameSet ==
    \/ \E lang \in NsLangs : NsCall(lang)
    \/ \E r \in NsValues : NsLang(r)
    \/ \E r \in NsValues : NsExact(r)
    \/ \E r \in NsValues : NsPortuguese(r)
    \/ \E r \in NsValues : NsFuzzy(r)

SpecNameSet == InitNameSet /\ [][NextNameSet]_vars

\* The exact and the Portuguese lookup answered with a record or nothing.
NsRecordsOrNothing == ns_locals.en_card.t # "list" /\ ns_locals.pt_card.t # "list"

\* C17: without a language the exact lookup by (name, set) comes first; if
\* it finds a printing with a collector number the Portuguese printing of
\* that number is requested and returned only when its lang is 'pt',
\* otherwise the printing of the exact lookup is returned; the fuzzy lookup
\* within the set is issued only when the exact lookup returned nothing, and
\* its result is then the return value.
C17_SetLookupOrder ==
    /\ (ns_lang = None /\ ns_issued # <<>>) => ns_issued[1] = "exact"
    /\ \A i \in DOMAIN ns_issued :
          ns_issued[i] = "fuzzy" => (i > 1 /\ ns_issued[i - 1] = "exact"
                                     /\ ~Truthy(ns_locals.en_card))
    /\ (ns_lang = None /\ ns_pc = "done" /\ NsRecordsOrNothing) =>
          LET en == ns_locals.en_card
              pt == ns_locals.pt_card
          IN  IF Truthy(en)
              THEN IF en.collector_number # None
                   THEN /\ ns_issued = <<"exact", "pt">>
                        /\ ns_result.value =
                              IF Truthy(pt) /\ pt.lang = "pt" THEN pt ELSE en
                   ELSE /\ ns_issued = <<"exact">>
                        /\ ns_result.value = en
              ELSE /\ ns_issued = <<"exact", "fuzzy">>
                   /\ ns_result.value = ns_locals.fuzzy_card

\* The exact lookup finds a printing with a collector number, the request
\* for the Portuguese printing is answered in English: the exact lookup's
\* printing is returned.
C17_Witness ==
    /\ ns_lang = None
    /\ ns_pc = "done"
    /\ ns_issued = <<"exact", "pt">>
    /\ ns_locals.en_card = [t |-> "dict", lang |-> "en", collector_number |-> "7"]
    /\ ns_locals.pt_card = [t |-> "dict", lang |-> "en", collector_number |-> "7"]
    /\ ns_result.value = ns_locals.en_card

\* C22: called with a language, get_card_by_name_and_set returns a record
\* of that language or nothing; so the record get_card_by_edition takes as
\* the Portuguese printing (the call with lang 'pt') has lang 'pt'.
C22_ReturnsRequestedLanguage ==
    (ns_lang # None /\ ns_pc = "done" /\ ns_result.value.t = "dict") =>
        ns_result.value.lang = ns_lang

(***************************************************************************)
(* ScryfallService.get_card_editions: the edition aggregator, and the      *)
(* filter of app.get_card_by_lang_and_set that runs on its result.         *)
(***************************************************************************)

\* The cards all the responses of one aggregation hold together, at most.
MaxCards == 2

\* limit=200, the default of get_card_editions.
DefaultLimit == 200

\* The printings the catalog can answer with: 'id', 'set' (lower case, as
\* the catalog writes it), 'lang' and 'released_at' (the ISO date's rank;
\* ISO dates compare as strings in the order of time).
SetCodes == {<<"c", "m">>, <<"l", "e">>}
Printings ==
    [id : {"id1", "id2"}, set : SetCodes, lang : {"pt", "en"}, released_at : {1, 2}]

\* The 'data' lists of at most n printings.
DataLists(n) == UNION {[1..k -> Printings] : k \in 0..n}

\* The answers to one search: None, or a body with its 'data'.
SearchResults(n) == {JNone} \cup [t : {"dict"}, data : DataLists(n)]

\* response and 'data' in response
HasData(r) == r.t = "dict"

\* The printings a response brings: its 'data', none when it is None.
DataOf(r) == IF HasData(r) THEN r.data ELSE <<>>

Ids(cards) == {cards[i].id : i \in DOMAIN cards}

\* Lines 200-203 and 229-232: existing_ids is computed once, before the
\* loop, and each card of data whose id is not in it is appended.
MergeNew(cards, data) ==
    LET existing_ids == Ids(cards)
        IsNew(card) == card.id \notin existing_ids
    IN  cards \o SelectSeq(data, IsNew)

\* all_cards[:limit]
Truncate(cards, lim) == SubSeq(cards, 1, IF Len(cards) < lim THEN Len(cards) ELSE lim)

\* Lines 244-245: the sets with a Portuguese printing among the cards processed.
SetsWithPortuguese(cards) ==
    {Upper(cards[i].set) : i \in {j \in DOMAIN cards : cards[j].lang = "pt"}}

\* Lines 237-262: the edition_info of each card, with has_portuguese.
EditionInfos(cards) ==
    LET sets_with_portuguese == SetsWithPortuguese(cards)
    IN  [i \in DOMAIN cards |->
            [id |-> cards[i].id,
             set |-> Upper(cards[i].set),
             lang |-> cards[i].lang,
             released_at |-> cards[i].released_at,
             has_portuguese |-> Upper(cards[i].set) \in sets_with_portuguese]]

\* Lines 265-267: sort_key
sort_key(x) == <<IF x.lang = "pt" THEN 0 ELSE 1, x.released_at>>

\* Python's order on the key tuples.
KeyLess(k1, k2) == k1[1] < k2[1] \/ (k1[1] = k2[1] /\ k1[2] < k2[2])

\* list.sort(key=sort_key, reverse=True): descending by key and stable, equal
\* keys keep their order.
RECURSIVE SortReverse(_)
SortReverse(seq) ==
    IF seq = <<>> THEN <<>>
    ELSE LET n == Len(seq)
             sorted == SortReverse(SubSeq(seq, 1, n - 1))
             x == seq[n]
             \* x goes after every element whose key is not less than its own
             pos == Cardinality({i \in DOMAIN sorted :
                                   ~KeyLess(sort_key(sorted[i]), sort_key(x))})
         IN  SubSeq(sorted, 1, pos) \o <<x>> \o SubSeq(sorted, pos + 1, n - 1)

\* The merged list sorted first and cut to the limit afterwards.
SortThenTruncate(cards, lim) == Truncate(SortReverse(EditionInfos(cards)), lim)

\* Lines 236-272 on the merged list.
ProcessAllCards(cards, lim) == SortReverse(EditionInfos(Truncate(cards, lim)))

\* get_card_editions is called, with the default limit or a small one.
EdCall(lim) ==
    /\ ed_pc = "idle"
    /\ budget = 0
    /\ ed_pc' = "exact"
    /\ budget' = MaxCards
    /\ limit' = lim
    /\ responses' = <<>>
    /\ UNCHANGED <<all_cards, editions, flt>>
    /\ UNCHANGED <<reqVars, rateVars, resVars, cpVars, plVars>>

\* Lines 170-178 and 194-196: the exact-phrase search and its cards.
EdExact(response) ==
    /\ ed_pc = "exact"
    /\ all_cards' = IF HasData(response) THEN response.data ELSE <<>>
    /\ budget' = budget - Len(all_cards')
    /\ ed_pc' = "loose"
    /\ responses' = Append(responses, DataOf(response))
    /\ UNCHANGED <<limit, editions, flt>>
    /\ UNCHANGED <<reqVars, rateVars, resVars, cpVars, plVars>>

\* Lines 181-207: the loose-phrase search, merged; no card at all returns [].
EdLoose(alt_response) ==
    /\ ed_pc = "loose"
    /\ all_cards' = IF HasData(alt_response)
                    THEN MergeNew(all_cards, alt_response.data) ELSE all_cards
    /\ budget' = budget - (IF HasData(alt_response) THEN Len(alt_response.data) ELSE 0)
    /\ IF all_cards' = <<>>
       THEN ed_pc' = "done" /\ editions' = <<>>
       ELSE ed_pc' = "oracle" /\ editions' = editions
    /\ responses' = Append(responses, DataOf(alt_response))
    /\ UNCHANGED <<limit, flt>>
    /\ UNCHANGED <<reqVars, rateVars, resVars, cpVars, plVars>>

\* Lines 214-272 when the first card has an oracle_id: the search by oracle
\* id, merged, then the cards are processed and sorted.
EdOracle(oracle_response) ==
    /\ ed_pc = "oracle"
    /\ all_cards' = IF HasData(oracle_response)
                    THEN MergeNew(all_cards, oracle_response.data) ELSE all_cards
    /\ budget' = budget - (IF HasData(oracle_response) THEN Len(oracle_response.data) ELSE 0)
    /\ editions' = ProcessAllCards(all_cards', limit)
    /\ ed_pc' = "done"
    /\ responses' = Append(responses, DataOf(oracle_response))
    /\ UNCHANGED <<limit, flt>>
    /\ UNCHANGED <<reqVars, rateVars, resVars, cpVars, plVars>>

\* Lines 214-272 when the first card has no oracle_id: no third search.
EdNoOracle ==
    /\ ed_pc = "oracle"
    /\ editions' = ProcessAllCards(all_cards, limit)
    /\ ed_pc' = "done"
    /\ UNCHANGED <<budget, limit, all_cards, flt, responses>>
    /\ UNCHANGED <<reqVars, rateVars, resVars, cpVars, plVars>>

\* The setCode and langCode a request can carry (None when not given).
FilterSets == {NoStr, <<"c", "m">>, <<"L", "E">>}
FilterLangs == {None, "pt"}

\* The test on the set written without .upper() on the requested code.
SetMismatchNoUpper(edition, set_code) ==
    set_code # NoStr /\ Upper(edition.set) # set_code

\* Line 239: set_code and edition_set != set_code.upper()
SetMismatch(edition, set_code) ==
    set_code # NoStr /\ Upper(edition.set) # Upper(set_code)

\* Line 243: lang_code and edition_lang != lang_code
LangMismatch(edition, lang_code) ==
    lang_code # None /\ edition.lang # lang_code

\* Lines 250-254, against all the editions.
PortugueseVersionExists(eds, edition_set) ==
    \E i \in DOMAIN eds : Upper(eds[i].set) = edition_set /\ eds[i].lang = "pt"

\* Lines 231-255: the editions that pass both tests, each with its flag.
FilterEditions(eds, set_code, lang_code) ==
    LET Include(e) == ~SetMismatch(e, set_code) /\ ~LangMismatch(e, lang_code)
        kept == SelectSeq(eds, Include)
    IN  [i \in DOMAIN kept |->
            [id |-> kept[i].id, set |-> kept[i].set, lang |-> kept[i].lang,
             released_at |-> kept[i].released_at,
             has_portuguese |-> kept[i].has_portuguese,
             is_portuguese_available |->
                 PortugueseVersionExists(eds, Upper(kept[i].set))]]

\* Lines 264-275: the first matching edition, or None.
SelectedCard(filtered_editions) ==
    IF filtered_editions = <<>> THEN JNone
    ELSE [t |-> "dict",
          scryfall_id |-> filtered_editions[1].id,
          set_code |-> Upper(filtered_editions[1].set),
          lang |-> filtered_editions[1].lang,
          is_portuguese_available |-> filtered_editions[1].is_portuguese_available]

\* get_card_by_lang_and_set, lines 230-285, on the editions that its call
\* of get_card_editions (default limit) returned.
EdFilter(set_code, lang_code) ==
    /\ ed_pc = "done"
    /\ limit = DefaultLimit
    /\ LET filtered_editions == FilterEditions(editions, set_code, lang_code)
       IN  flt' = [t |-> "dict",
                   set_code |-> set_code,
                   lang_code |-> lang_code,
                   filtered_editions |-> filtered_editions,
                   card |-> SelectedCard(filtered_editions),
                   total_matches |-> Len(filtered_editions)]
    /\ ed_pc' = "filtered"
    /\ UNCHANGED <<budget, limit, all_cards, editions, responses>>
    /\ UNCHANGED <<reqVars, rateVars, resVars, cpVars, plVars>>

InitEditions == IdleReq /\ IdleRate /\ IdleRes /\ IdleEd /\ IdleCp /\ IdlePl

NextEditions ==
    \/ \E lim \in {1, DefaultLimit} : EdCall(lim)
    \/ \E r \in SearchResults(budget) : EdExact(r)
    \/ \E r \in SearchResults(budget) : EdLoose(r)
    \/ \E r \in SearchResults(budget) : EdOracle(r)
    \/ EdNoOracle
    \/ \E sc \in FilterSets, lc \in FilterLangs : EdFilter(sc, lc)

SpecEditions == InitEditions /\ [][NextEditions]_vars

\* get_card_editions has returned its sequence.
EditionsReturned == ed_pc \in {"done", "filtered"}

IsPreferred(e) == e.lang = "pt"

\* C2: in the returned sequence every adjacent pair (a, b) has a Portuguese
\* and b not, or both the same preferred-status and a.released_at >=
\* b.released_at.
C2_PortugueseFirstNewestFirst ==
    EditionsReturned =>
        \A i \in 1..(Len(editions) - 1) :
            LET a == editions[i]
                b == editions[i + 1]
            IN  \/ IsPreferred(a) /\ ~IsPreferred(b)
                \/ IsPreferred(a) = IsPreferred(b) /\ a.released_at >= b.released_at

\* C3: the returned sequence holds no two printings with the same id.
C3_NoRepeatedId ==
    EditionsReturned =>
        \A i, j \in DOMAIN editions : i # j => editions[i].id # editions[j].id

\* The printings of data whose id is not among those of before.
NotYetPresent(data, before) ==
    SelectSeq(data, LAMBDA c : \A i \in DOMAIN before : before[i].id # c.id)

\* The merged list of the three queries: the exact-phrase results, then the
\* loose-phrase results whose id was not yet present, then the oracle-id
\* results whose id was not yet present (no oracle query, no results).
MergedList ==
    LET Data(k) == IF k <= Len(responses) THEN responses[k] ELSE <<>>
        two == Data(1) \o NotYetPresent(Data(2), Data(1))
    IN  two \o NotYetPresent(Data(3), two)

\* What identifies a printing in the result: id, set, language, date.
PrintingOf(c) ==
    [id |-> c.id, set |-> Upper(c.set), lang |-> c.lang, released_at |-> c.released_at]

Occurrences(seq, x) == Cardinality({i \in DOMAIN seq : PrintingOf(seq[i]) = x})

\* C18: the result is a reordering of exactly the first min(cap, n) entries
\* of the merged list of n printings, so it never has more than cap
\* printings.
C18_TruncatedBeforeSorting ==
    EditionsReturned =>
        LET n == Len(MergedList)
            kept == SubSeq(MergedList, 1, IF limit < n THEN limit ELSE n)
        IN  /\ Len(editions) = Len(kept)
            /\ Len(editions) <= limit
            /\ \A i \in DOMAIN kept :
                  Occurrences(editions, PrintingOf(kept[i]))
                      = Occurrences(kept, PrintingOf(kept[i]))

\* Two printings merged from two queries and a cap of 1: the first of the
\* merged list is the result, though the second would sort before it.
C18_Witness ==
    /\ ed_pc = "done"
    /\ limit = 1
    /\ Len(responses) = 3
    /\ Len(responses[1]) = 1 /\ Len(responses[2]) = 0 /\ Len(responses[3]) = 1
    /\ responses[1][1].id = "id1" /\ responses[1][1].released_at = 1
    /\ responses[3][1].id = "id2" /\ responses[3][1].released_at = 2
    /\ responses[1][1].lang = responses[3][1].lang
    /\ Len(editions) = 1
    /\ editions[1].id = "id1"

\* C19: a printing of the result has has_portuguese true if and only if a
\* printing of the merged results of the three queries has the same set code
\* and language 'pt'.
C19_HasPortugueseFlag ==
    EditionsReturned =>
        \A i \in DOMAIN editions :
            editions[i].has_portuguese <=>
                \E k \in DOMAIN MergedList :
                    /\ Upper(MergedList[k].set) = editions[i].set
                    /\ MergedList[k].lang = "pt"

\* C10: with a set constraint and no language constraint, if a printing of
\* the aggregate has the set code (codes compared without regard to case, the
\* aggregate holding them in upper case) the filtered result is not empty,
\* all of it has that set code and the selected card is its first element;
\* if none has it, the result is empty, total_matches is 0 and no card is
\* selected.
C10_FilterBySet ==
    (ed_pc = "filtered" /\ flt.set_code # NoStr /\ flt.lang_code = None) =>
        LET code == Upper(flt.set_code)
            present == \E i \in DOMAIN editions : editions[i].set = code
            f == flt.filtered_editions
        IN  /\ present =>
                  /\ f # <<>>
                  /\ \A i \in DOMAIN f : f[i].set = code
                  /\ flt.card # JNone
                  /\ flt.card.scryfall_id = f[1].id
                  /\ flt.card.set_code = code
                  /\ flt.card.lang = f[1].lang
                  /\ flt.total_matches = Len(f)
                  /\ \A i \in DOMAIN editions :
                        editions[i].set = code =>
                            \E j \in DOMAIN f : f[j].id = editions[i].id
            /\ ~present =>
                  f = <<>> /\ flt.total_matches = 0 /\ flt.card = JNone

\* A request for the set in lower case that two of three printings have, and
\* one for a set that none has.
C10_Witness ==
    /\ ed_pc = "filtered"
    /\ flt.set_code = <<"c", "m">>
    /\ flt.lang_code = None
    /\ Len(editions) = 2
    /\ flt.total_matches = 1
    /\ flt.card # JNone

(***************************************************************************)
(* CardParser: the line grammar of _parse_line, parse_card_list and        *)
(* _consolidate_cards.                                                     *)
(***************************************************************************)

Digits == <<"0", "1", "2", "3", "4", "5", "6", "7", "8", "9">>

\* The character classes of the patterns: \d, \s and [A-Za-z0-9].
DigitChars == {Digits[i] : i \in 1..10}
SpaceChars == {" ", "\t", "\n"}
AlnumChars == DigitChars \cup Letters
IsDigit(c) == c \in DigitChars
IsSpace(c) == c \in SpaceChars

SetMax(S) == CHOOSE x \in S : \A y \in S : y <= x
SetMin(S) == CHOOSE x \in S : \A y \in S : x <= y

\* The length of the longest run of characters of a class that starts at p.
RunLen(str, p, class) ==
    SetMax({k \in 0..(Len(str) - p + 1) : \A i \in p..(p + k - 1) : str[i] \in class})

AllSpace(str, p) == \A i \in p..Len(str) : IsSpace(str[i])

\* str.strip()
Strip(str) ==
    LET kept == {i \in 1..Len(str) : ~IsSpace(str[i])}
    IN  IF kept = {} THEN <<>> ELSE SubSeq(str, SetMin(kept), SetMax(kept))

\* str.split('\n')
Split(str) ==
    LET seps == {i \in 1..Len(str) : str[i] = "\n"}
        \* the position of the k-th separator; 0 and Len + 1 at the ends
        Sep(k) == IF k = 0 THEN 0
                  ELSE IF k > Cardinality(seps) THEN Len(str) + 1
                  ELSE CHOOSE i \in seps : Cardinality({j \in seps : j < i}) = k - 1
    IN  [k \in 1..(Cardinality(seps) + 1) |-> SubSeq(str, Sep(k - 1) + 1, Sep(k) - 1)]

\* int() of a run of digits, and str() of a number.
RECURSIVE IntOf(_)
IntOf(ds) ==
    IF ds = <<>> THEN 0
    ELSE IntOf(SubSeq(ds, 1, Len(ds) - 1)) * 10
         + ((CHOOSE i \in 1..10 : Digits[i] = ds[Len(ds)]) - 1)
RECURSIVE StrOf(_)
StrOf(n) ==
    IF n < 10 THEN <<Digits[n + 1]>>
    ELSE StrOf(n \div 10) \o <<Digits[(n % 10) + 1]>>

NoMatch == [m |-> FALSE]

\* Of the ways <<w, e>> a pattern can match, the one the regex engine
\* finds: the greedy \s run w as long as it can be, then the non-greedy name
\* ending at e as early as it can.
FirstMatch(cands) ==
    LET w == SetMax({c[1] : c \in cands})
    IN  <<w, SetMin({c[2] : c \in {x \in cands : x[1] = w}})>>

NoNewline(str, p, q) == \A i \in p..q : str[i] # "\n"

\* Line 13: ^\s*(\d+)\s+(.+?)\s+\(([A-Za-z0-9]+)\)(?:\s+\d+)?\s*$
Pattern1(line) ==
    LET n == Len(line)
        l == RunLen(line, 1, SpaceChars)
        d == RunLen(line, l + 1, DigitChars)
        wmax == RunLen(line, l + d + 1, SpaceChars)
        \* \s+\( from p: the position of the parenthesis, 0 when none
        Open(p) == LET w2 == RunLen(line, p, SpaceChars)
                   IN  IF w2 >= 1 /\ p + w2 <= n /\ line[p + w2] = "(" THEN p + w2 ELSE 0
        CodeLen(o) == RunLen(line, o + 1, AlnumChars)
        \* (?:\s+\d+)?\s*$ from t
        Trailer(t) == LET w3 == RunLen(line, t, SpaceChars)
                       d2 == RunLen(line, t + w3, DigitChars)
                   IN  AllSpace(line, t)
                       \/ (w3 >= 1 /\ d2 >= 1 /\ AllSpace(line, t + w3 + d2))
        Rest(p) == LET o == Open(p)
                       a == CodeLen(o)
                   IN  /\ o > 0
                       /\ a >= 1
                       /\ o + a + 1 <= n
                       /\ line[o + a + 1] = ")"
                       /\ Trailer(o + a + 2)
        cands == {c \in (1..wmax) \X ((l + d + 2)..n) :
                     /\ c[2] >= l + d + c[1] + 1
                     /\ NoNewline(line, l + d + c[1] + 1, c[2])
                     /\ Rest(c[2] + 1)}
    IN  IF d >= 1 /\ cands # {}
        THEN LET c == FirstMatch(cands)
                 o == Open(c[2] + 1)
             IN  [m |-> TRUE,
                  groups |-> << SubSeq(line, l + 1, l + d),
                                SubSeq(line, l + d + c[1] + 1, c[2]),
                                SubSeq(line, o + 1, o + CodeLen(o)) >>]
        ELSE NoMatch

\* Line 15: ^\s*(\d+)\s+(.+?)\s*$
Pattern2(line) ==
    LET n == Len(line)
        l == RunLen(line, 1, SpaceChars)
        d == RunLen(line, l + 1, DigitChars)
        wmax == RunLen(line, l + d + 1, SpaceChars)
        cands == {c \in (1..wmax) \X ((l + d + 2)..n) :
                     /\ c[2] >= l + d + c[1] + 1
                     /\ NoNewline(line, l + d + c[1] + 1, c[2])
                     /\ AllSpace(line, c[2] + 1)}
    IN  IF d >= 1 /\ cands # {}
        THEN LET c == FirstMatch(cands)
             IN  [m |-> TRUE,
                  groups |-> << SubSeq(line, l + 1, l + d),
                                SubSeq(line, l + d + c[1] + 1, c[2]) >>]
        ELSE NoMatch

\* Line 17: ^\s*([^\d].+?)\s*$
Pattern3(line) ==
    LET n == Len(line)
        lmax == RunLen(line, 1, SpaceChars)
        \* <<l, e>>: l leading blanks, then the group up to e
        cands == {c \in (0..lmax) \X (2..n) :
                     /\ c[1] + 1 <= n
                     /\ ~IsDigit(line[c[1] + 1])
                     /\ c[2] >= c[1] + 2
                     /\ NoNewline(line, c[1] + 2, c[2])
                     /\ AllSpace(line, c[2] + 1)}
    IN  IF cands # {}
        THEN LET c == FirstMatch(cands)
             IN  [m |-> TRUE, groups |-> << SubSeq(line, c[1] + 1, c[2]) >>]
        ELSE NoMatch

\* groups = match.groups() of the first pattern that matches, <<>> when none
\* does (lines 55-58).
FirstGroups(line) ==
    IF Pattern1(line).m THEN Pattern1(line).groups
    ELSE IF Pattern2(line).m THEN Pattern2(line).groups
    ELSE IF Pattern3(line).m THEN Pattern3(line).groups
    ELSE <<>>

\* Lines 60-93: the card of the groups, by their number; None for no match.
CardOfGroups(groups, line) ==
    IF Len(groups) = 3
    THEN [t |-> "dict", quantity |-> IntOf(groups[1]),
          name |-> Strip(groups[2]), set_code |-> Upper(groups[3]),
          original_line |-> line]
    ELSE IF Len(groups) = 2
    THEN [t |-> "dict", quantity |-> IntOf(groups[1]),
          name |-> Strip(groups[2]), set_code |-> NoStr,
          original_line |-> line]
    ELSE IF Len(groups) = 1
    THEN [t |-> "dict", quantity |-> 1,
          name |-> Strip(groups[1]), set_code |-> NoStr,
          original_line |-> line]
    ELSE JNone

\* _parse_line
ParseLine(line) ==
    CHOOSE card \in {CardOfGroups(groups, line) : groups \in {FirstGroups(line)}} : TRUE

\* Line 34: not line or line.startswith('#') or line.startswith('//')
Skipped(line) ==
    \/ line = <<>>
    \/ line[1] = "#"
    \/ Len(line) >= 2 /\ line[1] = "/" /\ line[2] = "/"

\* Lines 37-40: the card of one line with its line_number, <<>> when the line
\* is skipped or does not parse.
CardOfLine(card_info, line_number) ==
    IF card_info.t = "dict"
    THEN << [quantity |-> card_info.quantity,
             name |-> card_info.name,
             set_code |-> card_info.set_code,
             original_line |-> card_info.original_line,
             line_number |-> line_number] >>
    ELSE <<>>

\* Lines 25-43: the cards of the lines that parse, each with its line_number.
RECURSIVE ParsedCards(_, _)
ParsedCards(lines, line_number) ==
    IF line_number > Len(lines) THEN <<>>
    ELSE (CHOOSE cards \in
            {CardOfLine(IF Skipped(line) THEN JNone ELSE ParseLine(line), line_number) :
                line \in {Strip(lines[line_number])}} : TRUE)
         \o ParsedCards(lines, line_number + 1)

\* A key made of the name alone.
CardKeyNameOnly(card) == <<Lower(card.name), <<>>>>

\* Line 101: key = (card['name'].lower(), (card.get('set_code') or '').upper())
CardKey(card) ==
    <<Lower(card.name), IF card.set_code = NoStr THEN <<>> ELSE Upper(card.set_code)>>

\* Lines 97-114: card_map keeps its keys in their order of insertion; an
\* entry holds the first card of its key, the summed quantity and, once a
\* second line has come, original_lines (<<>> while the key is not set).
\* Lines 101-112 for one card.
AddToCardMap(card_map, card) ==
    LET key == CardKey(card)
        at == {i \in DOMAIN card_map : CardKey(card_map[i]) = key}
    IN  IF at # {}
        THEN LET i == CHOOSE j \in at : TRUE
                 old == card_map[i]
             IN  [card_map EXCEPT ![i] =
                    [old EXCEPT !.quantity = @ + card.quantity,
                                !.original_lines =
                                   (IF @ = <<>> THEN <<old.original_line>> ELSE @)
                                   \o <<card.original_line>>]]
        ELSE Append(card_map,
                    [quantity |-> card.quantity, name |-> card.name,
                     set_code |-> card.set_code,
                     original_line |-> card.original_line,
                     line_number |-> card.line_number,
                     original_lines |-> <<>>])

RECURSIVE ConsolidateCards(_)
ConsolidateCards(cards) ==
    IF cards = <<>> THEN <<>>
    ELSE CHOOSE result \in
            {AddToCardMap(card_map, cards[Len(cards)]) :
                card_map \in {ConsolidateCards(SubSeq(cards, 1, Len(cards) - 1))}} : TRUE

\* The pieces a text is typed from, and the texts of at most MaxPieces pieces.
MaxPieces == 4
Pieces == { <<"0">>, <<"1">>, <<" ">>, <<"a">>, <<"(">>, <<")">>, <<"#">>, <<"/">>,
            <<"\n">>, <<" ", "(", "a", ")">> }
RECURSIVE Texts(_)
Texts(n) ==
    IF n = 0 THEN {<<>>}
    ELSE LET shorter == Texts(n - 1)
         IN  shorter \cup {t \o q : t \in shorter, q \in Pieces}

\* The parsed lines _consolidate_cards can be given: at most MaxParsed cards
\* as _parse_line makes them (the set code in upper case, or None).
MaxParsed == 3
ParsedNames == {<<"a", "b">>, <<"A", "b">>, <<"a", "B">>, <<"c">>}
ParsedSets == {NoStr, <<"C", "M">>, <<"L">>}
ParsedLines(n) ==
    UNION {[1..k -> [quantity : 1..2, name : ParsedNames, set_code : ParsedSets]] :
             k \in 0..n}

\* parse_card_list(card_list_text)
CpParseCardList ==
    /\ cp_pc = "idle"
    /\ \E card_list_text \in Texts(MaxPieces) :
          /\ cp_in' = card_list_text
          /\ cp_parsed' = ParsedCards(Split(Strip(card_list_text)), 1)
    /\ cp_out' = ConsolidateCards(cp_parsed')
    /\ cp_pc' = "parsed"
    /\ UNCHANGED <<cp_round, issues>>
    /\ UNCHANGED <<reqVars, rateVars, resVars, edVars, plVars>>

\* _consolidate_cards(parsed_cards) on cards that came from lines 1, 2, ...
CpConsolidateCards ==
    /\ cp_pc = "idle"
    /\ \E lines \in ParsedLines(MaxParsed) :
          cp_parsed' = [i \in DOMAIN lines |->
                          [quantity |-> lines[i].quantity, name |-> lines[i].name,
                           set_code |-> lines[i].set_code,
                           original_line |-> lines[i].name, line_number |-> i]]
    /\ cp_out' = ConsolidateCards(cp_parsed')
    /\ cp_pc' = "consolidated"
    /\ UNCHANGED <<cp_in, cp_round, issues>>
    /\ UNCHANGED <<reqVars, rateVars, resVars, edVars, plVars>>

\* An entry written back as a line: '<quantity> <name> (<set_code>)', or
\* '<quantity> <name>' when it has no set code.
RenderLine(card) ==
    StrOf(card.quantity) \o <<" ">> \o card.name
    \o (IF card.set_code = NoStr THEN <<>> ELSE <<" ", "(">> \o card.set_code \o <<")">>)

RECURSIVE RenderText(_)
RenderText(cards) ==
    IF cards = <<>> THEN <<>>
    ELSE IF Len(cards) = 1 THEN RenderLine(cards[1])
    ELSE RenderLine(cards[1]) \o <<"\n">> \o RenderText(SubSeq(cards, 2, Len(cards)))

\* parse_card_list on the rendering of its own output.
CpReparse ==
    /\ cp_pc = "parsed"
    /\ cp_round' = ConsolidateCards(ParsedCards(Split(Strip(RenderText(cp_out))), 1))
    /\ cp_pc' = "reparsed"
    /\ UNCHANGED <<cp_in, cp_parsed, cp_out, issues>>
    /\ UNCHANGED <<reqVars, rateVars, resVars, edVars, plVars>>

\* A line that validate_card_list skips when it is empty only.
SkippedBlankOnly(line) == line = <<>>

\* Line 125: not line or line.startswith('#') or line.startswith('//')
SkippedInValidation(line) ==
    \/ line = <<>>
    \/ line[1] = "#"
    \/ Len(line) >= 2 /\ line[1] = "/" /\ line[2] = "/"

\* Lines 122-129: the issue of line i, <<>> when the line is skipped or parses.
IssueOfLine(line, i) ==
    IF ~SkippedInValidation(line) /\ ~Truthy(ParseLine(line))
    THEN << [i |-> i, line |-> line] >>
    ELSE <<>>

\* Lines 118-131: the issues of the lines from the i-th on.
RECURSIVE Issues(_, _)
Issues(lines, i) ==
    IF i > Len(lines) THEN <<>>
    ELSE (CHOOSE issue \in {IssueOfLine(line, i) : line \in {Strip(lines[i])}} : TRUE)
         \o Issues(lines, i + 1)

\* validate_card_list on the text parse_card_list was given.
CpValidateCardList ==
    /\ cp_pc = "parsed"
    /\ issues' = Issues(Split(Strip(cp_in)), 1)
    /\ cp_pc' = "validated"
    /\ UNCHANGED <<cp_in, cp_parsed, cp_out, cp_round>>
    /\ UNCHANGED <<reqVars, rateVars, resVars, edVars, plVars>>

InitParser == IdleReq /\ IdleRate /\ IdleRes /\ IdleEd /\ IdleCp /\ IdlePl

NextParser ==
    \/ CpParseCardList
    \/ CpConsolidateCards
    \/ CpReparse
    \/ CpValidateCardList

SpecParser == InitParser /\ [][NextParser]_vars

\* The identity key of an entry: lowercased name, uppercased set code or empty.
IdentityKey(card) ==
    [name |-> Lower(card.name),
     set |-> IF card.set_code = NoStr THEN <<>> ELSE Upper(card.set_code)]

RECURSIVE SumQuantities(_)
SumQuantities(cards) ==
    IF cards = <<>> THEN 0
    ELSE cards[1].quantity + SumQuantities(SubSeq(cards, 2, Len(cards)))

FirstLineOf(key) ==
    SetMin({i \in DOMAIN cp_parsed : IdentityKey(cp_parsed[i]) = key})

\* C8: consolidation yields one entry per distinct identity key of the
\* parsed lines, in the order the keys first appear, each with the sum of
\* the quantities of the lines of its key; lines that differ in the set
\* code stay separate entries.
C8_Consolidation ==
    cp_pc \in {"parsed", "consolidated", "reparsed"} =>
        LET keys == {IdentityKey(cp_parsed[i]) : i \in DOMAIN cp_parsed}
            WithKey(key) == SelectSeq(cp_parsed, LAMBDA c : IdentityKey(c) = key)
        IN  /\ Len(cp_out) = Cardinality(keys)
            /\ {IdentityKey(cp_out[i]) : i \in DOMAIN cp_out} = keys
            /\ \A i, j \in DOMAIN cp_out :
                  i < j => FirstLineOf(IdentityKey(cp_out[i]))
                             < FirstLineOf(IdentityKey(cp_out[j]))
            /\ \A i \in DOMAIN cp_out :
                  cp_out[i].quantity = SumQuantities(WithKey(IdentityKey(cp_out[i])))
            /\ \A i, j \in DOMAIN cp_parsed :
                  cp_parsed[i].set_code # cp_parsed[j].set_code =>
                      \E a, b \in DOMAIN cp_out :
                          /\ a # b
                          /\ IdentityKey(cp_out[a]) = IdentityKey(cp_parsed[i])
                          /\ IdentityKey(cp_out[b]) = IdentityKey(cp_parsed[j])

\* Three lines of one name in two spellings, two of them of one set and one
\* without a set: two entries, the first with the summed quantity.
C8_Witness ==
    /\ cp_pc = "consolidated"
    /\ Len(cp_parsed) = 3
    /\ cp_parsed[1].name = <<"a", "b">> /\ cp_parsed[1].set_code = <<"C", "M">>
    /\ cp_parsed[2].name = <<"a", "b">> /\ cp_parsed[2].set_code = NoStr
    /\ cp_parsed[3].name = <<"A", "b">> /\ cp_parsed[3].set_code = <<"C", "M">>
    /\ cp_parsed[1].quantity = 2 /\ cp_parsed[3].quantity = 1
    /\ Len(cp_out) = 2
    /\ cp_out[1].quantity = 3

\* What is compared of a consolidated list: names, quantities and set
\* codes, in order.
Requests(cards) ==
    [i \in DOMAIN cards |->
        [name |-> cards[i].name, quantity |-> cards[i].quantity,
         set_code |-> cards[i].set_code]]

\* C9: rendering the consolidated output back to lines and parsing those
\* again yields the same names, quantities and set codes in the same order.
C9_ReparseIsIdentity ==
    cp_pc = "reparsed" => Requests(cp_round) = Requests(cp_out)

\* C11: every request parse_card_list returns has a name that is not empty
\* after trimming and a quantity of at least 1.
C11_NameAndQuantity ==
    cp_pc = "parsed" =>
        \A i \in DOMAIN cp_out :
            Strip(cp_out[i].name) # <<>> /\ cp_out[i].quantity >= 1

\* A line that is neither blank nor a comment.
NonBlankNonComment(line) ==
    /\ line # <<>>
    /\ line[1] # "#"
    /\ ~(Len(line) >= 2 /\ line[1] = "/" /\ line[2] = "/")

\* A line that matches none of the three patterns.
MatchesNone(line) == ~Pattern1(line).m /\ ~Pattern2(line).m /\ ~Pattern3(line).m

\* C12: validate_card_list reports exactly the non-blank, non-comment lines
\* that match none of the three patterns, and each non-blank, non-comment
\* line is either in the issues or one of the parsed lines (and then in a
\* consolidated request), never both; blank and comment lines are in neither.
C12_ValidationComplementsParsing ==
    cp_pc = "validated" =>
        LET lines == Split(Strip(cp_in))
            Line(i) == Strip(lines[i])
            Reported == {issues[k].i : k \in DOMAIN issues}
            ParsedAt == {cp_parsed[k].line_number : k \in DOMAIN cp_parsed}
        IN  /\ Reported = {i \in DOMAIN lines :
                              NonBlankNonComment(Line(i)) /\ MatchesNone(Line(i))}
            /\ \A k \in DOMAIN issues :
                  /\ issues[k].line = Line(issues[k].i)
                  /\ \A j \in DOMAIN issues : k < j => issues[k].i < issues[j].i
            /\ \A i \in DOMAIN lines :
                  IF NonBlankNonComment(Line(i))
                  THEN (i \in Reported) # (i \in ParsedAt)
                  ELSE i \notin Reported /\ i \notin ParsedAt
            /\ \A k \in DOMAIN cp_parsed :
                  \E e \in DOMAIN cp_out :
                      IdentityKey(cp_out[e]) = IdentityKey(cp_parsed[k])

\* The lines of the text as it was passed in, blank and comment lines kept.
LinesPassedIn == Split(cp_in)

\* The positions, in the text passed in, of the lines that parse to a
\* request of the identity key of card.
PositionsOf(card) ==
    {i \in DOMAIN LinesPassedIn :
        LET line == Strip(LinesPassedIn[i])
        IN  /\ NonBlankNonComment(line)
            /\ ~MatchesNone(line)
            /\ IdentityKey(ParseLine(line)) = IdentityKey(card)}

\* C21: every request parse_card_list returns carries as line_number the
\* 1-based position, in the text passed in, of the first line that produced
\* it, and validate_card_list numbers the failing lines in the same way.
C21_LineNumbers ==
    /\ cp_pc \in {"parsed", "validated"} =>
          \A e \in DOMAIN cp_out :
              /\ PositionsOf(cp_out[e]) # {}
              /\ cp_out[e].line_number = SetMin(PositionsOf(cp_out[e]))
    /\ cp_pc = "validated" =>
          \A k \in DOMAIN issues :
              /\ issues[k].i \in DOMAIN LinesPassedIn
              /\ Strip(LinesPassedIn[issues[k].i]) = issues[k].line

\* A text whose first line fails and whose second line is still parsed.
C12_Witness ==
    /\ cp_pc = "validated"
    /\ cp_in = <<"1", "\n", "a", "a">>
    /\ issues = << [i |-> 1, line |-> <<"1">>] >>
    /\ Len(cp_out) = 1
    /\ cp_out[1].line_number = 2

(***************************************************************************)
(* app.process_list: the loop over the consolidated requests. Of a record  *)
(* the model keeps quantity, scryfall_id, set_code, lang, editions,        *)
(* original_name and error (None for a record without that key).           *)
(***************************************************************************)

\* The lines of a submitted list, at most MaxRequests of them.
MaxRequests == 2
PlLines == { <<"1", " ", "a">>,
             <<"2", " ", "a", " ", "(", "c", "m", ")">>,
             <<"1", " ", "b", " ", "(", "C", "M", ")">>,
             <<"2", " ", "A">>,
             <<"#", " ", "a">> }
RECURSIVE PlTexts(_)
PlTexts(n) ==
    IF n = 0 THEN {<<>>}
    ELSE LET shorter == PlTexts(n - 1)
         IN  shorter \cup {t \o <<"\n">> \o q : t \in shorter, q \in PlLines}

\* What the catalog does for one card: get_card_by_name raises, returns None
\* or returns a record; get_card_editions raises or returns a list. A
\* record's image_uris is an object or null.
Raise == [t |-> "raise"]
ByNameResults ==
    {Raise, JNone}
    \cup [t : {"dict"}, id : {"id1"}, set : {<<"l", "e">>}, lang : {"pt", "en"},
          image_uris : {"dict", None}]
EditionResults ==
    {Raise, [t |-> "list", list |-> <<>>]}
    \cup {[t |-> "list", list |-> <<e>>] :
            e \in [t : {"dict"}, id : {"id2"}, set : {<<"C", "M">>},
                   lang : {"pt", "en"}, image_uris : {"dict", None}]}
Behaviours == [by_name : ByNameResults, editions : EditionResults]

\* Lines 64-69: the card of get_card_by_name, None when the call raises.
CardDataOf(by_name) == IF by_name.t = "raise" THEN JNone ELSE by_name

\* Lines 75-80: the editions of get_card_editions, [] when the call raises.
EditionsOf(r) == IF r.t = "raise" THEN <<>> ELSE r.list

\* Line 86: default_edition = set_code.upper() if set_code else None
DefaultEdition(card_info) ==
    IF card_info.set_code = NoStr \/ card_info.set_code = <<>>
    THEN NoStr ELSE Upper(card_info.set_code)

\* Lines 90-106: the Portuguese card found first, else the edition of the
\* requested set, else the first edition when it is Portuguese.
ChooseCardData(data, card_info, eds) ==
    LET default_edition == DefaultEdition(card_info)
        of_set == {i \in DOMAIN eds : Upper(eds[i].set) = default_edition}
    IN  IF data.lang = "pt" THEN data
        ELSE IF default_edition # NoStr /\ eds # <<>>
        THEN IF of_set # {} THEN eds[SetMin(of_set)] ELSE data
        ELSE IF eds # <<>>
        THEN IF eds[1].lang = "pt" THEN eds[1] ELSE data
        ELSE data

\* Lines 113-125: processed_card
ProcessedCard(data, card_info, eds) ==
    [quantity |-> card_info.quantity,
     scryfall_id |-> data.id,
     set_code |-> Upper(data.set),
     lang |-> data.lang,
     editions |-> eds,
     original_name |-> card_info.name,
     error |-> None]

\* Lines 134-144 and 148-158: the placeholder, with its error.
Placeholder(card_info, error) ==
    [quantity |-> card_info.quantity,
     scryfall_id |-> "",
     set_code |-> IF card_info.set_code = NoStr THEN <<>> ELSE card_info.set_code,
     lang |-> None,
     editions |-> <<>>,
     original_name |-> card_info.name,
     error |-> error]

\* Lines 59-144, the body of the outer try for one card: it appends a
\* record, or raises when card_data.get('image_uris', {}) is None.
TryCard(card_info, b) ==
    LET data == CardDataOf(b.by_name)
        eds == EditionsOf(b.editions)
    IN  IF Truthy(data)
        THEN IF ChooseCardData(data, card_info, eds).image_uris = None
             THEN [t |-> "raise", found |-> TRUE]
             ELSE [t |-> "append", found |-> TRUE,
                   record |-> ProcessedCard(ChooseCardData(data, card_info, eds),
                                            card_info, eds)]
        ELSE [t |-> "append", found |-> FALSE,
              record |-> Placeholder(card_info, "Card not found")]

\* An except clause that appends nothing.
OnExceptionDrop(card_info) == <<>>

\* Lines 146-158: except Exception appends the placeholder.
OnException(card_info) ==
    << Placeholder(card_info, "Network error - please try again") >>

\* Lines 159-160
RECURSIVE TotalCards(_)
TotalCards(cards) ==
    IF cards = <<>> THEN 0
    ELSE cards[1].quantity + TotalCards(SubSeq(cards, 2, Len(cards)))

\* Lines 43-54: the text is stripped and parsed; an empty text or a text
\* with no valid card is answered with status 400.
PlCall ==
    /\ pl_pc = "idle"
    /\ \E text \in PlTexts(MaxRequests) :
          LET card_list_text == Strip(text)
              cards == ConsolidateCards(ParsedCards(Split(Strip(card_list_text)), 1))
          IN  IF card_list_text = <<>> \/ cards = <<>>
              THEN /\ pl_pc' = "done"
                   /\ pl_response' = [t |-> "error", status |-> 400]
                   /\ UNCHANGED <<parsed_cards, card_index>>
              ELSE /\ pl_pc' = "loop"
                   /\ parsed_cards' = cards
                   /\ card_index' = 1
                   /\ UNCHANGED pl_response
    /\ UNCHANGED <<processed_cards, pl_log>>
    /\ UNCHANGED <<reqVars, rateVars, resVars, edVars, cpVars>>

\* Lines 57-158: one turn of the loop, for the catalog's behaviour b; fuzzy
\* is what the attempts of the card's fuzzy lookup met, when they are modelled.
CardTurn(b, fuzzy) ==
    /\ pl_pc = "loop"
    /\ card_index <= Len(parsed_cards)
    /\ LET card_info == parsed_cards[card_index]
           outcome == TryCard(card_info, b)
       IN  /\ processed_cards' = processed_cards \o
                (IF outcome.t = "raise" THEN OnException(card_info)
                 ELSE <<outcome.record>>)
           /\ pl_log' = Append(pl_log, [found |-> outcome.found,
                                        raised |-> outcome.t = "raise",
                                        fuzzy |-> fuzzy])
    /\ card_index' = card_index + 1
    /\ UNCHANGED <<pl_pc, parsed_cards, pl_response>>

\* One turn of the loop, the catalog's calls taken as a whole.
PlCard(b) ==
    /\ CardTurn(b, <<>>)
    /\ UNCHANGED <<reqVars, rateVars, resVars, edVars, cpVars>>

\* Lines 159-166: the loop is over, the records are returned.
PlReturn ==
    /\ pl_pc = "loop"
    /\ card_index > Len(parsed_cards)
    /\ pl_pc' = "done"
    /\ pl_response' = [t |-> "ok", cards |-> processed_cards,
                       total_cards |-> TotalCards(processed_cards),
                       estimated_pages |-> (TotalCards(processed_cards) + 8) \div 9]
    /\ UNCHANGED <<parsed_cards, card_index, processed_cards, pl_log>>
    /\ UNCHANGED <<reqVars, rateVars, resVars, edVars, cpVars>>

InitProcess == IdleReq /\ IdleRate /\ IdleRes /\ IdleEd /\ IdleCp /\ IdlePl

NextProcess ==
    \/ PlCall
    \/ \E b \in Behaviours : PlCard(b)
    \/ PlReturn

SpecProcess == InitProcess /\ [][NextProcess]_vars

\* The loop is sequential code and every call in it returns (the requests
\* have a timeout), so a turn that can be taken is taken.
SpecProcessFair ==
    SpecProcess /\ WF_vars(\E b \in Behaviours : PlCard(b)) /\ WF_vars(PlReturn)

\* The resolution of the i-th request failed: no card was found, or an
\* exception was raised while the card was processed.
ResolutionFailed(i) == ~pl_log[i].found \/ pl_log[i].raised

HasError(record) == record.error # None /\ record.error # ""

\* The records so far are one per request taken, in the order of the
\* requests, each with its request's name and quantity, and with an error
\* when the resolution failed.
RecordsMatchRequests ==
    /\ pl_pc = "loop" => Len(processed_cards) = card_index - 1
    /\ pl_pc = "done" /\ parsed_cards # <<>> =>
          /\ Len(processed_cards) = Len(parsed_cards)
          /\ pl_response.t = "ok"
          /\ pl_response.cards = processed_cards
    /\ Len(processed_cards) <= Len(parsed_cards)
    /\ \A i \in DOMAIN processed_cards :
          /\ processed_cards[i].original_name = parsed_cards[i].name
          /\ processed_cards[i].quantity = parsed_cards[i].quantity
          /\ ResolutionFailed(i) => HasError(processed_cards[i])

\* C1: for a list that parses to at least one request and any behaviour of
\* the catalog, process_list emits exactly one record per consolidated
\* request, in the consolidated order and with the request's quantity; a
\* card whose resolution fails gets a placeholder with a non-empty error,
\* and the cards after it are still processed, up to the end of the list.
C1_OneRecordPerRequest ==
    /\ []RecordsMatchRequests
    /\ (pl_pc = "loop") ~> (pl_pc = "done" /\ Len(processed_cards) = Len(parsed_cards))

\* Two requests: the first is not found, the second raises while its record
\* is built; both have their placeholder in the response.
C1_Witness ==
    /\ pl_pc = "done"
    /\ Len(parsed_cards) = 2
    /\ ~pl_log[1].found
    /\ pl_log[2].found /\ pl_log[2].raised
    /\ Len(pl_response.cards) = 2
    /\ pl_response.cards[1].error = "Card not found"
    /\ pl_response.cards[2].error = "Network error - please try again"
    /\ pl_response.cards[2].quantity = parsed_cards[2].quantity

\* The request names a set code, and the aggregate of the record holds a
\* printing of that set.
SetRequestedAndListed(card_info, record) ==
    /\ card_info.set_code # NoStr
    /\ \E k \in DOMAIN record.editions :
          Upper(record.editions[k].set) = Upper(card_info.set_code)

\* C23: when a request names a set code and the aggregate returned for the
\* card holds a printing of that set, the record emitted for the request has
\* the requested set code, whatever the language of the resolver's result.
C23_RequestedSetKept ==
    \A i \in DOMAIN processed_cards :
        SetRequestedAndListed(parsed_cards[i], processed_cards[i]) =>
            processed_cards[i].set_code = Upper(parsed_cards[i].set_code)

(***************************************************************************)
(* process_list with the fuzzy lookup of get_card_by_name run through      *)
(* _make_request: for each request the loop of _make_request runs on the   *)
(* fuzzy URL, and its return value decides how get_card_by_name goes on.   *)
(***************************************************************************)

\* scryfall_service lines 75-79: get_card_by_name returns None when the
\* fuzzy lookup returned a falsy value; otherwise it goes on and ends as
\* rest, one of the results the function can have.
ByNameAfterFuzzy(value, rest) == IF value = None THEN JNone ELSE rest

\* app line 64 reaching scryfall_service line 75: the fuzzy lookup of the
\* current card enters _make_request.
FzCall ==
    /\ pl_pc = "loop"
    /\ card_index <= Len(parsed_cards)
    /\ MrCall

\* One attempt of the fuzzy lookup.
FzAttempt(u) ==
    /\ pl_pc = "loop"
    /\ MrAttempt(u)

\* The fuzzy lookup has returned: get_card_by_name ends, and process_list
\* finishes the turn of the card.
FzCard(b) ==
    /\ mr_pc = "done"
    /\ CardTurn([by_name |-> IF mr_result.kind = "raise" THEN JNone
                             ELSE ByNameAfterFuzzy(mr_result.value, b.by_name),
                 editions |-> b.editions],
                outcomes)
    /\ mr_pc' = "idle"
    /\ UNCHANGED <<calls, attempt, sent, mr_result, sleeps, outcomes, sent_at>>
    /\ UNCHANGED <<rateVars, resVars, edVars, cpVars>>

\* What an attempt of the fuzzy lookup meets: a response of each status, its
\* body parsable, or a connection error.
FuzzyUpstream ==
    {u \in Upstream : IF u.kind = "response" THEN u.json_ok
                      ELSE u.exc = "ConnectionError"}

\* What the rest of the turn meets: any result of get_card_by_name, and a
\* get_card_editions that raises or finds no edition.
FuzzyBehaviours ==
    {b \in Behaviours : b.editions.t = "list" => b.editions.list = <<>>}

InitLookup == IdleReq /\ IdleRate /\ IdleRes /\ IdleEd /\ IdleCp /\ IdlePl

NextLookup ==
    \/ PlCall
    \/ FzCall
    \/ \E u \in FuzzyUpstream : FzAttempt(u)
    \/ \E b \in FuzzyBehaviours : FzCard(b)
    \/ PlReturn

SpecLookup == InitLookup /\ [][NextLookup]_vars

\* The upstream confirmed that the card does not exist.
ConfirmedAbsent(outs) ==
    /\ outs # <<>>
    /\ outs[Len(outs)].kind = "response"
    /\ outs[Len(outs)].status = 404

\* The outcome could not be determined: a network error on all attempts, a
\* 429 on all attempts, or an unexpected status.
Undetermined(outs) ==
    \/ /\ Len(outs) = max_retries
       /\ \/ \A i \in DOMAIN outs : NetworkError(outs[i])
          \/ \A i \in DOMAIN outs :
                outs[i].kind = "response" /\ outs[i].status = 429
    \/ /\ outs # <<>>
       /\ outs[Len(outs)].kind = "response"
       /\ outs[Len(outs)].status \notin {200, 404, 429}

\* The record of a card that was not found.
CardNotFound(card_info) ==
    [quantity |-> card_info.quantity,
     scryfall_id |-> "",
     set_code |-> IF card_info.set_code = NoStr THEN <<>> ELSE card_info.set_code,
     lang |-> None,
     editions |-> <<>>,
     original_name |-> card_info.name,
     error |-> "Card not found"]

\* C20: _make_request returns None both when the upstream confirmed that
\* the card does not exist (404) and when the outcome could not be
\* determined (network errors on all attempts, 429 on all attempts, an
\* unexpected status); for a card whose fuzzy lookup ends in any of these
\* ways process_list emits the same "Card not found" placeholder.
C20_AbsenceIndistinguishable ==
    /\ mr_pc = "done" /\ (ConfirmedAbsent(outcomes) \/ Undetermined(outcomes)) =>
          mr_result = [kind |-> "return", value |-> None]
    /\ \A i \in DOMAIN processed_cards :
          ConfirmedAbsent(pl_log[i].fuzzy) \/ Undetermined(pl_log[i].fuzzy) =>
              processed_cards[i] = CardNotFound(parsed_cards[i])

\* Two requests in one response: the fuzzy lookup of the first met a 404,
\* that of the second a 429 on each of its three attempts.
C20_Witness ==
    /\ pl_pc = "done"
    /\ pl_response.t = "ok"
    /\ Len(pl_response.cards) = 2
    /\ ConfirmedAbsent(pl_log[1].fuzzy)
    /\ Len(pl_log[2].fuzzy) = 3
    /\ \A i \in 1..3 : pl_log[2].fuzzy[i].kind = "response"
                         /\ pl_log[2].fuzzy[i].status = 429
    /\ pl_response.cards[1].error = "Card not found"
    /\ pl_response.cards[2].error = "Card not found"

====
